---- MODULE Spec2Model ----
(***************************************************************************)
(* A model of pytube/cli.py: one run of main() from argument parsing to    *)
(* process end, with the external library (YouTube, streams, download),    *)
(* the terminal and the user (KeyboardInterrupt) as the environment.       *)
(*                                                                         *)
(* Optional values (args.url, args.itag) are sequences of length <= 1:     *)
(* <<>> is None, <<x>> is the value x.  Floats are modelled as exact       *)
(* rationals; percent is kept in tenths of a percent.                      *)
(***************************************************************************)
EXTENDS Integers, Sequences, FiniteSets, TLC

\* ----------------------------------------------------------------- bounds
MaxItag == 2
MaxVerbosity == 4
MaxColumns == 4
MaxFilesize == 3
MaxChunks == 3
MaxPayload == 2

\* ------------------------------------------------------- input domains
None == <<>>
Urls == {None, <<"">>, <<"watch?v=a">>}
ItagArgs == {None} \cup {<<n>> : n \in -1..MaxItag}
Verbosities == 0..MaxVerbosity
Payloads == 1..MaxPayload
\* lists of distinct itags the library may offer for a video
StreamLists ==
  {s \in UNION {[1..n -> 1..MaxItag] : n \in 0..MaxItag} :
     \A i, j \in DOMAIN s : i # j => s[i] # s[j]}
\* scale = Num/Den; <<55, 100>> is the default 0.55
Scales == {<<55, 100>>, <<1, 1>>, <<-1, 2>>}
Chars == {"#", "="}
DefaultCh == "#"
DefaultScale == <<55, 100>>

VARIABLES
  pc,              \* position of the run
  args,            \* argparse namespace
  levelCalls,      \* arguments of logging.getLogger().setLevel, in order
  out,             \* writes to stdout, in order
  status,          \* "running", "returned", "exited", "raised"
  code,            \* sys.exit code (-1 while none)
  exc,             \* name of the uncaught exception ("" while none)
  procs,           \* procedures of cli.py that main dispatched to
  libcalls,        \* calls into the external library
  yt_streams,      \* yt.streams of the constructed video handle
  filesize,        \* stream.filesize of the selected stream
  remaining,       \* the library's remaining-byte counter during download
  chunks,          \* number of on_progress callbacks so far
  cur,             \* the latest progress-bar rendering (<<>> or <<r>>)
  columns,         \* terminal width reported by stty
  tty,             \* whether stty size reports a size at all
  interruptedAt,   \* position at which KeyboardInterrupt arrived ("" if none)
  js, watch_html, vid_info,   \* payloads read by build_playback_report
  files,           \* report files created, in order
  barScale,        \* scale passed to display_progress_bar
  barLog           \* direct calls of display_progress_bar (at most two kept)

vars == <<pc, args, levelCalls, out, status, code, exc, procs, libcalls,
          yt_streams, filesize, remaining, chunks, cur, columns, tty,
          interruptedAt, js, watch_html, vid_info, files, barScale,
          barLog>>

\* ------------------------------------------------------ pure helpers
\* Python truthiness of an optional str (args.url)
TruthyStr(opt) == opt # None /\ opt[1] # ""

\* Python truthiness of an optional int (args.itag)
TruthyInt(opt) == opt # None /\ opt[1] # 0

\* int(n/d) for d > 0: truncation toward zero
Trunc(n, d) == IF n >= 0 THEN n \div d ELSE -((-n) \div d)

\* round(n/d) for d > 0 and n >= 0, Python 3: ties go to the even integer
RoundPos(n, d) ==
  LET q == n \div d
      r == n % d
  IN  IF 2 * r < d THEN q
      ELSE IF 2 * r > d THEN q + 1
      ELSE IF q % 2 = 0 THEN q ELSE q + 1

\* round(n/d) for d > 0
Round(n, d) == IF n >= 0 THEN RoundPos(n, d) ELSE -RoundPos(-n, d)

\* LogLevel without the clamp at zero
LogLevel_unclamped(v) == (3 - v) * 10

\* logging level chosen from the -v count
LogLevel(v) == (IF 3 - v > 0 THEN 3 - v ELSE 0) * 10

\* level of the root logger (logging.WARNING until setLevel is called)
RootLevel == IF levelCalls = <<>> THEN 30 ELSE levelCalls[Len(levelCalls)]

\* s * n for a one-character string s (empty for n <= 0)
RECURSIVE Times(_, _)
Times(s, n) == IF n <= 0 THEN "" ELSE s \o Times(s, n - 1)

\* max_width = int(columns * scale)
MaxWidth(cols, scale) == Trunc(cols * scale[1], scale[2])

\* Filled computing the unfilled remainder of the bar instead
Filled_remainder(cols, bytes_received, fsize, scale) ==
  MaxWidth(cols, scale) - Round(MaxWidth(cols, scale) * bytes_received, fsize)

\* Filled adding the bytes of the previous call (a module-level running total)
Filled_accumulating(cols, bytes_received, fsize, scale) ==
  Round(MaxWidth(cols, scale)
          * (bytes_received
             + (IF barLog = <<>> THEN 0
                ELSE barLog[Len(barLog)].bytes_received)), fsize)

\* filled = int(round(max_width * bytes_received / float(filesize)))
Filled(cols, bytes_received, fsize, scale) ==
  Round(MaxWidth(cols, scale) * bytes_received, fsize)

\* percent = round(100.0 * bytes_received / float(filesize), 1), in tenths
Percent(bytes_received, fsize) == Round(1000 * bytes_received, fsize)

\* "{percent}" of a non-negative float with one decimal
FormatPercent(p) == ToString(p \div 10) \o "." \o ToString(p % 10)

\* what one call of display_progress_bar computes and writes
display_progress_bar(cols, bytes_received, fsize, ch, scale) ==
  LET max_width == MaxWidth(cols, scale)
      filled == Filled(cols, bytes_received, fsize, scale)
      rest == max_width - filled
      bar == Times(ch, filled) \o Times(" ", rest)
      percent == Percent(bytes_received, fsize)
  IN  [bytes_received |-> bytes_received, filesize |-> fsize, ch |-> ch,
       scale |-> scale, columns |-> cols, max_width |-> max_width,
       filled |-> filled, width |-> IF filled > 0 THEN filled ELSE 0,
       pad |-> IF rest > 0 THEN rest ELSE 0, percent |-> percent,
       text |-> " > |" \o bar \o "| " \o FormatPercent(percent) \o "%\r"]

\* on_progress passing bytes_remaining where bytes_received is expected
on_progress_unsubtracted(cols, fsize, bytes_remaining) ==
  display_progress_bar(cols, bytes_remaining, fsize, DefaultCh, DefaultScale)

\* on_progress: bytes_received = filesize - bytes_remaining, default ch, scale
on_progress(cols, fsize, bytes_remaining) ==
  display_progress_bar(cols, fsize - bytes_remaining, fsize, DefaultCh,
                       DefaultScale)

\* ------------------------------------------------------------ state
NoArgs == [url |-> None, itag |-> None, list |-> FALSE, verbosity |-> 0,
           build_playback_report |-> FALSE]

Init ==
  /\ pc = "parse"
  /\ args = NoArgs
  /\ levelCalls = <<>>
  /\ out = <<>>
  /\ status = "running"
  /\ code = -1
  /\ exc = ""
  /\ procs = <<>>
  /\ libcalls = <<>>
  /\ yt_streams = <<>>
  /\ filesize = 0
  /\ remaining = 0
  /\ chunks = 0
  /\ cur = <<>>
  /\ columns \in 0..MaxColumns
  /\ tty \in BOOLEAN
  /\ interruptedAt = ""
  /\ js = 0
  /\ watch_html = 0
  /\ vid_info = 0
  /\ files = <<>>
  /\ barScale = DefaultScale
  /\ barLog = <<>>

\* variable groups left alone by most actions
libVars == <<yt_streams, filesize, remaining, chunks, cur>>
reportVars == <<js, watch_html, vid_info, files>>
barVars == <<barScale, barLog>>
envVars == <<columns, tty, interruptedAt>>

\* the process ends: sys.exit(c), an uncaught exception, or a normal return
Exit(c) == pc' = "done" /\ status' = "exited" /\ code' = c /\ exc' = exc
Raise(e) == pc' = "done" /\ status' = "raised" /\ exc' = e /\ code' = code
Return == pc' = "done" /\ status' = "returned" /\ code' = code /\ exc' = exc
Goto(l) == pc' = l /\ UNCHANGED <<status, code, exc>>

\* --------------------------------------------------------------- main
\* parser.parse_args() succeeds; the root logger level is set
ParseArgs ==
  /\ pc = "parse"
  /\ \E u \in Urls, i \in ItagArgs, l \in BOOLEAN, v \in Verbosities,
        r \in BOOLEAN :
       args' = [url |-> u, itag |-> i, list |-> l, verbosity |-> v,
                build_playback_report |-> r]
  /\ levelCalls' = Append(levelCalls, LogLevel(args'.verbosity))
  /\ Goto("main")
  /\ UNCHANGED <<out, procs, libcalls, libVars, reportVars, envVars, barVars>>

\* --version: argparse prints the version and exits inside parse_args
ParseVersion ==
  /\ pc = "parse"
  /\ out' = Append(out, "version")
  /\ Exit(0)
  /\ UNCHANGED <<args, levelCalls, procs, libcalls, libVars, reportVars,
                 envVars, barVars>>

\* a malformed command line (e.g. --itag abc): argparse exits with code 2
ParseError ==
  /\ pc = "parse"
  /\ Exit(2)
  /\ UNCHANGED <<args, levelCalls, out, procs, libcalls, libVars, reportVars,
                 envVars, barVars>>

\* MainNoUrl calling sys.exit() without an exit code
MainNoUrl_exit0 ==
  /\ pc = "main"
  /\ ~TruthyStr(args.url)
  /\ procs' = Append(procs, "print_help")
  /\ out' = Append(out, "help")
  /\ Exit(0)
  /\ UNCHANGED <<args, levelCalls, libcalls, libVars, reportVars, envVars,
                 barVars>>

\* if not args.url: parser.print_help(); sys.exit(1)
MainNoUrl ==
  /\ pc = "main"
  /\ ~TruthyStr(args.url)
  /\ procs' = Append(procs, "print_help")
  /\ out' = Append(out, "help")
  /\ Exit(1)
  /\ UNCHANGED <<args, levelCalls, libcalls, libVars, reportVars, envVars,
                 barVars>>

\* if args.list: display_streams(args.url)
MainList ==
  /\ pc = "main"
  /\ TruthyStr(args.url)
  /\ args.list
  /\ procs' = Append(procs, "display_streams")
  /\ Goto("ds_yt")
  /\ UNCHANGED <<args, levelCalls, out, libcalls, libVars, reportVars,
                 envVars, barVars>>

\* MainReport as an independent "if" instead of "elif"
MainReport_if ==
  /\ pc = "main"
  /\ TruthyStr(args.url)
  /\ args.build_playback_report
  /\ procs' = Append(procs, "build_playback_report")
  /\ Goto("bpr_yt")
  /\ UNCHANGED <<args, levelCalls, out, libcalls, libVars, reportVars,
                 envVars, barVars>>

\* elif args.build_playback_report: build_playback_report(args.url)
MainReport ==
  /\ pc = "main"
  /\ TruthyStr(args.url)
  /\ ~args.list
  /\ args.build_playback_report
  /\ procs' = Append(procs, "build_playback_report")
  /\ Goto("bpr_yt")
  /\ UNCHANGED <<args, levelCalls, out, libcalls, libVars, reportVars,
                 envVars, barVars>>

\* MainDownload testing "args.itag is not None"
MainDownload_notNone ==
  /\ pc = "main"
  /\ TruthyStr(args.url)
  /\ ~args.list
  /\ ~args.build_playback_report
  /\ args.itag # None
  /\ procs' = Append(procs, "download")
  /\ Goto("dl_yt")
  /\ UNCHANGED <<args, levelCalls, out, libcalls, libVars, reportVars,
                 envVars, barVars>>

\* elif args.itag: download(args.url, args.itag)
MainDownload ==
  /\ pc = "main"
  /\ TruthyStr(args.url)
  /\ ~args.list
  /\ ~args.build_playback_report
  /\ TruthyInt(args.itag)
  /\ procs' = Append(procs, "download")
  /\ Goto("dl_yt")
  /\ UNCHANGED <<args, levelCalls, out, libcalls, libVars, reportVars,
                 envVars, barVars>>

\* no branch of the if/elif chain applies: main returns
MainNone ==
  /\ pc = "main"
  /\ TruthyStr(args.url)
  /\ ~args.list
  /\ ~args.build_playback_report
  /\ ~TruthyInt(args.itag)
  /\ Return
  /\ UNCHANGED <<args, levelCalls, out, procs, libcalls, libVars, reportVars,
                 envVars, barVars>>

\* ---------------------------------------------------- display_streams
\* yt = YouTube(url)
DisplayYouTube ==
  /\ pc = "ds_yt"
  /\ libcalls' = Append(libcalls, "YouTube")
  /\ yt_streams' \in StreamLists
  /\ Goto("ds_print")
  /\ UNCHANGED <<args, levelCalls, out, procs, filesize, remaining, chunks, cur, reportVars, envVars, barVars>>

\* for stream in yt.streams.all(): print(stream)
DisplayStreams ==
  /\ pc = "ds_print"
  /\ libcalls' = Append(libcalls, "streams.all")
  /\ out' = out \o [i \in 1..Len(yt_streams) |-> "stream"]
  /\ Return
  /\ UNCHANGED <<args, levelCalls, procs, libVars, reportVars, envVars,
                 barVars>>

\* ---------------------------------------------- build_playback_report
\* yt = YouTube(url); ts and fp are computed without touching the disk
ReportYouTube ==
  /\ pc = "bpr_yt"
  /\ libcalls' = Append(libcalls, "YouTube")
  /\ yt_streams' \in StreamLists
  /\ Goto("bpr_js")
  /\ UNCHANGED <<args, levelCalls, out, procs, filesize, remaining, chunks, cur, reportVars, envVars, barVars>>

\* js = yt.js
ReportJs ==
  /\ pc = "bpr_js"
  /\ js' \in Payloads
  /\ Goto("bpr_html")
  /\ UNCHANGED <<args, levelCalls, out, procs, libcalls, libVars, watch_html,
                 vid_info, files, envVars, barVars>>

\* watch_html = yt.watch_html
ReportWatchHtml ==
  /\ pc = "bpr_html"
  /\ watch_html' \in Payloads
  /\ Goto("bpr_info")
  /\ UNCHANGED <<args, levelCalls, out, procs, libcalls, libVars, js,
                 vid_info, files, envVars, barVars>>

\* vid_info = yt.vid_info
ReportVidInfo ==
  /\ pc = "bpr_info"
  /\ vid_info' \in Payloads
  /\ Goto("bpr_open")
  /\ UNCHANGED <<args, levelCalls, out, procs, libcalls, libVars, js,
                 watch_html, files, envVars, barVars>>

\* a report file that has been created but not written yet
EmptyFile == [written |-> FALSE, url |-> "", js |-> 0, watch_html |-> 0,
              video_info |-> 0]

\* ReportDocument with js and watch_html swapped
ReportDocument_swapped(u, j, w, v) ==
  [written |-> TRUE, url |-> u, js |-> w, watch_html |-> j, video_info |-> v]

\* the JSON document written to the report file
ReportDocument(u, j, w, v) ==
  [written |-> TRUE, url |-> u, js |-> j, watch_html |-> w, video_info |-> v]

\* with gzip.open(fp, "wb") as fh: the file is created
ReportOpen ==
  /\ pc = "bpr_open"
  /\ files' = Append(files, EmptyFile)
  /\ Goto("bpr_write")
  /\ UNCHANGED <<args, levelCalls, out, procs, libcalls, libVars, js,
                 watch_html, vid_info, envVars, barVars>>

\* fh.write(json.dumps({...}).encode("utf8")); the file is closed; return
ReportWrite ==
  /\ pc = "bpr_write"
  /\ files' = [files EXCEPT ![Len(files)] =
                 ReportDocument(args.url[1], js, watch_html, vid_info)]
  /\ Return
  /\ UNCHANGED <<args, levelCalls, out, procs, libcalls, libVars, js,
                 watch_html, vid_info, envVars, barVars>>

\* gzip.open or fh.write fails (no permission, disk full): OSError propagates
FileRaises ==
  /\ pc \in {"bpr_open", "bpr_write"}
  /\ Raise("OSError")
  /\ UNCHANGED <<args, levelCalls, out, procs, libcalls, libVars, reportVars,
                 envVars, barVars>>

\* ------------------------------------------------------------ download
\* yt = YouTube(url, on_progress_callback=on_progress)
DownloadYouTube ==
  /\ pc = "dl_yt"
  /\ libcalls' = Append(libcalls, "YouTube")
  /\ yt_streams' \in StreamLists
  /\ Goto("dl_get")
  /\ UNCHANGED <<args, levelCalls, out, procs, filesize, remaining, chunks, cur, reportVars, envVars, barVars>>

\* yt.streams.get_by_itag(n): TRUE when a stream is found
get_by_itag(streams, n) == \E i \in DOMAIN streams : streams[i] = n

\* stream is None: print("Could not find ..." + itag) with itag an int
\* (argparse type=int) raises TypeError before anything is printed
DownloadNotFound ==
  /\ pc = "dl_get"
  /\ ~get_by_itag(yt_streams, args.itag[1])
  /\ libcalls' = Append(libcalls, "get_by_itag")
  /\ Raise("TypeError")
  /\ UNCHANGED <<args, levelCalls, out, procs, libVars, reportVars, envVars,
                 barVars>>

\* stream found; its filesize is whatever the library reports
DownloadFound ==
  /\ pc = "dl_get"
  /\ get_by_itag(yt_streams, args.itag[1])
  /\ libcalls' = Append(libcalls, "get_by_itag")
  /\ filesize' \in 1..MaxFilesize
  /\ Goto("dl_print")
  /\ UNCHANGED <<args, levelCalls, out, procs, yt_streams, remaining, chunks, cur, reportVars, envVars, barVars>>

\* print("\n{fn} | {fs} bytes"); try: stream.download() is entered
DownloadStart ==
  /\ pc = "dl_print"
  /\ out' = Append(out, "header")
  /\ libcalls' = Append(libcalls, "download")
  /\ remaining' = filesize
  /\ Goto("dl_download")
  /\ UNCHANGED <<args, levelCalls, procs, yt_streams, filesize, chunks, cur, reportVars, envVars, barVars>>

\* the library received a chunk and calls on_progress(stream, chunk, fh, r)
OnProgress ==
  /\ pc = "dl_download"
  /\ tty
  /\ chunks < MaxChunks
  /\ \E r \in 0..remaining :
       /\ remaining' = r
       /\ cur' = <<on_progress(columns, filesize, r)>>
  /\ chunks' = chunks + 1
  /\ out' = Append(out, "bar")
  /\ Goto("dl_download")
  /\ UNCHANGED <<args, levelCalls, procs, libcalls, yt_streams, filesize,
                 reportVars, envVars, barVars>>

\* get_terminal_size without a terminal: "".split() cannot be unpacked
OnProgressNoTty ==
  /\ pc = "dl_download"
  /\ ~tty
  /\ chunks < MaxChunks
  /\ \E r \in 0..remaining : remaining' = r
  /\ chunks' = chunks + 1
  /\ Raise("ValueError")
  /\ UNCHANGED <<args, levelCalls, out, procs, libcalls, yt_streams, filesize, cur, reportVars, envVars, barVars>>

\* stream.download() returns once every byte arrived; sys.stdout.write("\n")
DownloadFinish ==
  /\ pc = "dl_download"
  /\ remaining = 0
  /\ out' = Append(out, "newline")
  /\ Return
  /\ UNCHANGED <<args, levelCalls, procs, libcalls, libVars, reportVars,
                 envVars, barVars>>

\* ------------------------------------------------------- environment
\* positions at which the run is inside a call into the library
LibraryPcs == {"ds_yt", "ds_print", "bpr_yt", "bpr_js", "bpr_html",
               "bpr_info", "dl_yt", "dl_get", "dl_download"}

\* positions inside the try block of download
TryPcs == {"dl_download"}

\* blocking positions (library, file and terminal I/O) at which a user
\* interrupt can arrive
RunningPcs == LibraryPcs \cup {"bpr_open", "bpr_write", "dl_print"}

\* a network or parsing failure of the library propagates uncaught
LibraryRaises ==
  /\ pc \in LibraryPcs
  /\ Raise("LibraryError")
  /\ UNCHANGED <<args, levelCalls, out, procs, libcalls, libVars, reportVars,
                 envVars, barVars>>

\* InterruptCaught without the except clause
InterruptCaught_noExcept ==
  /\ pc \in TryPcs
  /\ interruptedAt' = pc
  /\ Raise("KeyboardInterrupt")
  /\ UNCHANGED <<args, levelCalls, out, procs, libcalls, libVars, reportVars,
                 columns, tty, barVars>>

\* except KeyboardInterrupt: sys.exit()
InterruptCaught ==
  /\ pc \in TryPcs
  /\ interruptedAt' = pc
  /\ Exit(0)
  /\ UNCHANGED <<args, levelCalls, out, procs, libcalls, libVars, reportVars,
                 columns, tty, barVars>>

\* KeyboardInterrupt outside the try block propagates uncaught
InterruptUncaught ==
  /\ pc \in RunningPcs \ TryPcs
  /\ interruptedAt' = pc
  /\ Raise("KeyboardInterrupt")
  /\ UNCHANGED <<args, levelCalls, out, procs, libcalls, libVars, reportVars,
                 columns, tty, barVars>>

\* the user resizes the terminal while the download runs
Resize ==
  /\ pc = "dl_download"
  /\ tty
  /\ \E c \in 0..MaxColumns : c # columns /\ columns' = c
  /\ UNCHANGED <<pc, status, code, exc, args, levelCalls, out, procs,
                 libcalls, libVars, reportVars, tty, interruptedAt, barVars>>

Next ==
  \/ ParseArgs \/ ParseVersion \/ ParseError
  \/ MainNoUrl \/ MainList \/ MainReport \/ MainDownload \/ MainNone
  \/ DisplayYouTube \/ DisplayStreams
  \/ ReportYouTube \/ ReportJs \/ ReportWatchHtml \/ ReportVidInfo
  \/ ReportOpen \/ ReportWrite \/ FileRaises
  \/ DownloadYouTube \/ DownloadNotFound \/ DownloadFound \/ DownloadStart
  \/ OnProgress \/ OnProgressNoTty \/ DownloadFinish
  \/ LibraryRaises \/ InterruptCaught \/ InterruptUncaught \/ Resize

Spec == Init /\ [][Next]_vars

\* ------------------------------------- display_progress_bar on its own
\* a caller other than main: the renderer is called directly, for a fixed
\* filesize and scale, with any bytes_received and ch, on a terminal that
\* may be resized between calls
InitBar ==
  /\ pc = "bar"
  /\ args = NoArgs
  /\ levelCalls = <<>>
  /\ out = <<>>
  /\ status = "running"
  /\ code = -1
  /\ exc = ""
  /\ procs = <<>>
  /\ libcalls = <<>>
  /\ yt_streams = <<>>
  /\ filesize \in 1..MaxFilesize
  /\ remaining = 0
  /\ chunks = 0
  /\ cur = <<>>
  /\ columns \in 0..MaxColumns
  /\ tty = TRUE
  /\ interruptedAt = ""
  /\ js = 0
  /\ watch_html = 0
  /\ vid_info = 0
  /\ files = <<>>
  /\ barScale \in Scales
  /\ barLog = <<>>

\* display_progress_bar(bytes_received, filesize, ch, scale); barLog keeps
\* this call and, at most, one arbitrary earlier call
BarCall ==
  /\ pc = "bar"
  /\ \E ch \in Chars, b \in 0..filesize :
       LET r == display_progress_bar(columns, b, filesize, ch, barScale)
       IN  barLog' \in {<<r>>} \cup {<<barLog[i], r>> : i \in DOMAIN barLog}
  /\ UNCHANGED <<pc, status, code, exc, args, levelCalls, out, procs,
                 libcalls, libVars, reportVars, envVars, barScale>>

\* the terminal is resized between two calls
BarResize ==
  /\ pc = "bar"
  /\ \E c \in 0..MaxColumns : c # columns /\ columns' = c
  /\ UNCHANGED <<pc, status, code, exc, args, levelCalls, out, procs,
                 libcalls, libVars, reportVars, tty, interruptedAt, barVars>>

NextBar == BarCall \/ BarResize

SpecBar == InitBar /\ [][NextBar]_vars

\* ============================================================ properties
\* the run got past parser.parse_args() (it did not end inside argparse)
PassedParsing ==
  /\ pc # "parse"
  /\ ~(status = "exited" /\ code \in {0, 2} /\ procs = <<>>)

\* args.url is a non-empty string
UrlGiven == args.url # None /\ args.url # <<"">>

\* stream.download() has been invoked
DownloadInvoked == \E i \in DOMAIN libcalls : libcalls[i] = "download"

\* C1: a run with a URL and --itag N whose lookup finds no stream prints the
\* "Could not find a stream" message and ends through a process exit, with
\* no exception and without invoking stream.download().
C1_UnknownItagExitsCleanly ==
  (/\ pc = "done"
   /\ procs = <<"download">>
   /\ libcalls = <<"YouTube", "get_by_itag">>
   /\ interruptedAt = ""
   /\ \A i \in DOMAIN yt_streams : yt_streams[i] # args.itag[1])
  => (status = "exited" /\ exc = "" /\ out = <<"notfound">>)

\* C2: when the url argument is absent, whatever the other flags, the help
\* text is printed, the process exits with code 1, no procedure other than
\* the help runs and the library is never called.
C2_MissingUrlHelpAndExit1 ==
  (PassedParsing /\ args.url = None)
  => /\ libcalls = <<>>
     /\ files = <<>>
     /\ procs \in {<<>>, <<"print_help">>}
     /\ pc \in {"main", "done"}
     /\ pc = "done" => (/\ status = "exited"
                        /\ code = 1
                        /\ out = <<"help">>
                        /\ procs = <<"print_help">>)

C2_Witness ==
  /\ pc = "done"
  /\ args.url = None
  /\ args.list
  /\ args.build_playback_report
  /\ args.itag = <<1>>
  /\ code = 1
  /\ out = <<"help">>

\* C3: for a fixed terminal width, scale and filesize >= 1, the rendered
\* filled width is non-decreasing in bytes_received over [0, filesize] (and
\* so is the computed value "filled" when scale >= 0), and the rendered
\* percent lies within [0, 100].
C3_BarMonotonicBounded ==
  /\ \A i \in DOMAIN barLog :
       /\ barLog[i].bytes_received \in 0..barLog[i].filesize
       /\ barLog[i].percent >= 0
       /\ barLog[i].percent <= 1000
  /\ \A i, j \in DOMAIN barLog :
       (/\ barLog[i].columns = barLog[j].columns
        /\ barLog[i].scale = barLog[j].scale
        /\ barLog[i].filesize = barLog[j].filesize
        /\ barLog[i].bytes_received <= barLog[j].bytes_received)
       => /\ barLog[i].width <= barLog[j].width
          /\ barLog[i].percent <= barLog[j].percent
          /\ barLog[i].scale[1] >= 0 => barLog[i].filled <= barLog[j].filled

C3_Witness ==
  /\ Len(barLog) = 2
  /\ barLog[1].columns = barLog[2].columns
  /\ barLog[1].bytes_received > 0
  /\ barLog[1].bytes_received < barLog[2].bytes_received
  /\ barLog[2].bytes_received < barLog[2].filesize
  /\ barLog[1].width < barLog[2].width
  /\ barLog[2].percent < 1000

\* C4 (as stated): a KeyboardInterrupt arriving at any point after download
\* has been entered ends the process through a process exit, never through
\* an uncaught exception.
C4_InterruptAnywhereExits ==
  (procs = <<"download">> /\ interruptedAt # "")
  => (status = "exited" /\ exc = "")

\* C4 (amended): a KeyboardInterrupt arriving while stream.download() is
\* running ends the process through sys.exit() with nothing further written
\* to stdout; one arriving earlier in download (handle construction, stream
\* lookup, header print) propagates as an uncaught KeyboardInterrupt.
C4_InterruptInDownloadCallExits ==
  [][(interruptedAt = "" /\ interruptedAt' # "" /\ procs = <<"download">>)
     => /\ out' = out
        /\ pc' = "done"
        /\ IF DownloadInvoked
           THEN status' = "exited" /\ code' = 0 /\ exc' = ""
           ELSE status' = "raised" /\ exc' = "KeyboardInterrupt"]_vars

C4_Witness ==
  /\ interruptedAt = "dl_download"
  /\ status = "exited"
  /\ cur # <<>>
  /\ remaining > 0
  /\ out[Len(out)] = "bar"

\* C5 (as stated): every run that gets past argument parsing executes
\* exactly one of print-help, display_streams, build_playback_report and
\* download before it ends.
C5_ExactlyOneProcedure ==
  (PassedParsing /\ pc = "done") => Len(procs) = 1

\* C5 (amended): every run that gets past argument parsing executes at most
\* one of the four procedures; it executes none exactly when a URL is given
\* without -l and --build-playback-report and --itag is absent or 0, and
\* then main returns having printed nothing and called nothing.
C5_AtMostOneProcedure ==
  LET noMode == /\ UrlGiven
                /\ ~args.list
                /\ ~args.build_playback_report
                /\ args.itag \in {None, <<0>>}
  IN  /\ Len(procs) <= 1
      /\ \A i \in DOMAIN procs :
           procs[i] \in {"print_help", "display_streams",
                         "build_playback_report", "download"}
      /\ (PassedParsing /\ pc # "main") => (procs = <<>> <=> noMode)
      /\ (PassedParsing /\ pc = "done" /\ noMode)
         => (status = "returned" /\ out = <<>> /\ libcalls = <<>>)

C5_Witness ==
  /\ pc = "done"
  /\ status = "returned"
  /\ UrlGiven
  /\ args.itag = None
  /\ procs = <<>>

\* two logged calls of display_progress_bar with the same four arguments
SameArguments(i, j) ==
  /\ barLog[i].bytes_received = barLog[j].bytes_received
  /\ barLog[i].filesize = barLog[j].filesize
  /\ barLog[i].ch = barLog[j].ch
  /\ barLog[i].scale = barLog[j].scale

C7_DownloadProgressMonotone ==
  [][/\ cur' # <<>>
        => /\ cur'[1].bytes_received = filesize' - remaining'
           /\ cur'[1].filesize = filesize'
           /\ remaining' = 0
              => /\ cur'[1].percent = 1000
                 /\ cur'[1].filled = (cur'[1].columns * 55) \div 100
                 /\ cur'[1].width = cur'[1].filled
                 /\ cur'[1].pad = 0
     /\ (cur # <<>> /\ cur' # <<>>)
        => /\ remaining' <= remaining
           /\ cur[1].percent <= cur'[1].percent
           /\ cur[1].columns = cur'[1].columns
              => (cur[1].filled <= cur'[1].filled
                  /\ cur[1].width <= cur'[1].width)]_vars

C7_Witness ==
  /\ pc = "done"
  /\ status = "returned"
  /\ chunks = 3
  /\ cur # <<>>
  /\ cur[1].bytes_received = filesize
  /\ filesize = 3
  /\ cur[1].percent = 1000
  /\ cur[1].filled = 2
  /\ out[Len(out)] = "newline"

\* C8: on every run that passes argument parsing, missing-URL runs included,
\* the root logger level is set once, to max(3 - v, 0) * 10 for the -v count
\* v: one of 30, 20, 10, 0; 30 for v = 0; 0 for v >= 3; non-increasing in v.
C8_VerbositySetsLevel ==
  PassedParsing
  => /\ levelCalls = <<RootLevel>>
     /\ RootLevel \in {30, 20, 10, 0}
     /\ args.verbosity = 0 => RootLevel = 30
     /\ args.verbosity >= 3 => RootLevel = 0
     /\ args.verbosity <= 3 => RootLevel = 30 - 10 * args.verbosity
     /\ \A w \in 0..args.verbosity : LogLevel(w) >= RootLevel

C8_Witness ==
  /\ pc = "done"
  /\ code = 1
  /\ args.url = None
  /\ args.verbosity > 3
  /\ levelCalls = <<0>>

\* C9: with a URL, -l wins over --build-playback-report, which wins over
\* --itag: with -l only display_streams runs and no report file is written;
\* otherwise with --build-playback-report only build_playback_report runs;
\* download runs only when neither flag is set; stream.download() is never
\* invoked when either flag is set.
C9_DispatchPriority ==
  (PassedParsing /\ UrlGiven)
  => /\ args.list
        => /\ procs \in {<<>>, <<"display_streams">>}
           /\ pc # "main" => procs = <<"display_streams">>
           /\ files = <<>>
           /\ ~DownloadInvoked
     /\ (~args.list /\ args.build_playback_report)
        => /\ procs \in {<<>>, <<"build_playback_report">>}
           /\ pc # "main" => procs = <<"build_playback_report">>
           /\ ~DownloadInvoked
     /\ (\E i \in DOMAIN procs : procs[i] = "download")
        => (~args.list /\ ~args.build_playback_report)

C9_Witness ==
  /\ pc = "done"
  /\ status = "returned"
  /\ args.list
  /\ args.build_playback_report
  /\ args.itag = <<1>>
  /\ procs = <<"display_streams">>
  /\ Len(out) = 2

\* C10: build_playback_report writes at most one file, and creates it only
\* after the handle and all three payloads were obtained; a library failure
\* leaves no file behind; a run that returns has written exactly one file
\* holding the url and the three payloads as obtained.
C10_ReportWrittenOnceAfterPayloads ==
  /\ Len(files) <= 1
  /\ files # <<>>
     => /\ procs = <<"build_playback_report">>
        /\ libcalls = <<"YouTube">>
        /\ js \in Payloads
        /\ watch_html \in Payloads
        /\ vid_info \in Payloads
  /\ (status = "raised" /\ exc = "LibraryError") => files = <<>>
  /\ (\E i \in DOMAIN files : files[i].written) => status = "returned"
  /\ (procs = <<"build_playback_report">> /\ status = "returned")
     => files = <<[written |-> TRUE, url |-> args.url[1], js |-> js,
                   watch_html |-> watch_html, video_info |-> vid_info]>>

C10_Witness ==
  /\ pc = "done"
  /\ status = "returned"
  /\ Len(files) = 1
  /\ files[1].written
  /\ files[1].js # files[1].watch_html
  /\ files[1].video_info = 2

====
